---------------------------- MODULE Spec2Model ----------------------------
(***************************************************************************)
(* Model of the two review connectors of the repository:                   *)
(*   src/prSHARK/backends/github.py      (class Github)                    *)
(*   src/reviewSHARK/backends/gerrit.py  (class Gerrit)                    *)
(*                                                                         *)
(* Specifications:                                                         *)
(*   SpecPages   Github._fetch_all_pages, one request per step             *)
(*   SpecPeople  the identity resolvers Github._get_person and             *)
(*               Gerrit._get_people_id / Gerrit._store_people              *)
(*   SpecGithub  Github.run / Github.parse_pr_list                         *)
(*   Spec        Gerrit.run and the store_* methods it calls               *)
(*   SpecLink    Gerrit._get_issue_id, one call per step                   *)
(*   SpecFetch   the fetchers Github._send_request and                     *)
(*               Gerrit._make_request, one HTTP attempt per step           *)
(***************************************************************************)
EXTENDS Integers, Sequences, FiniteSets, TLC

VARIABLES
    \* ---- Github._fetch_all_pages ----
    pgTotal,        \* number of records the remote collection holds
    pgPc,           \* position inside _fetch_all_pages
    page,           \* local variable page
    dat,            \* local variable dat
    ret,            \* local variable ret
    pgResult,       \* the value _fetch_all_pages returned
    pgReqs,         \* length of the page each request so far was answered with
    \* ---- the People collection and the identity caches ----
    backend,        \* which connector this deployment runs
    people,         \* the People collection of the store
    nextId,         \* next object id the store hands out
    ghPeopleCache,  \* Github._people (instance attribute)
    people_id_cache,\* Gerrit.people_id_cache (class attribute)
    ghUsers,        \* remote: user url -> raw user (GitHub)
    grAccounts,     \* remote: _account_id -> raw account (Gerrit)
    httpCount,      \* number of HTTP requests the last resolve call sent
    storeOps,       \* number of store lookups and writes the last resolve call made
    calls,          \* number of resolve calls made
    lastKey,        \* remote actor identifier of the last resolve call
    lastId,         \* person id the last resolve call returned
    lastRepeat,     \* whether the last call's identifier was resolved before in this run
    firstId,        \* per identifier: the id its first resolve call of this run returned
    resolved,       \* every (derived name, derived email, remote id, person id) resolved
    created,        \* for each created person: what the two lookups held before
    runNo,          \* number of runs started
    \* ---- Github.parse_pr_list ----
    ghRemote,       \* remote: the pull request listing with its reviews and comments
    ghPc,           \* position inside parse_pr_list
    prIdx,          \* index of the pull request being parsed
    rvIdx,          \* index of the review being parsed
    cmIdx,          \* index of the review comment being parsed
    mongo_pr,       \* id of the pull request document being parsed
    mongo_prr,      \* id of the review document being parsed
    pullRequests,   \* the PullRequest collection
    prReviews,      \* the PullRequestReview collection
    prReviewComments, \* the PullRequestReviewComment collection
    ghPrevRemote,   \* the listing the previous run parsed
    ghPrevStore,    \* the collections as the previous run left them
    \* ---- Gerrit.run ----
    grRemote,       \* remote: the reviews with their revisions, messages and comments
    grPc,           \* position inside run()
    rIdx,           \* index of the raw review being synced
    revIdx,         \* index of the revision being synced
    review,         \* the in-memory CodeReview document of run()
    codeReviews,    \* the CodeReview collection
    codeReviewRevisions,  \* the CodeReviewRevision collection
    codeReviewChangeLogs, \* the CodeReviewChangeLog collection
    codeReviewComments,   \* the CodeReviewComment collection
    revision_id_cache,    \* Gerrit.revision_id_cache (class attribute)
    issue_id_cache,       \* Gerrit.issue_id_cache (class attribute)
    link,                 \* config.link
    issues,               \* the Issue collection of the store
    grListing,            \* remote: the reviews of the project, as the remote lists them
    grLimit,              \* remote: the most reviews the remote puts in one batch
    oldest_review,        \* get_reviews: updated_at of oldest_review (NoTime for None)
    yielded_reviews,      \* get_reviews: local variable yielded_reviews
    data,                 \* get_reviews: local variable data
    grNewest,             \* latest updated_at of a thread that reached Done before this run
    grDoneAt,             \* (external id, updated_at) of every thread that reached Done
    grPartial,            \* external ids of the threads stored but not Done
    grPrevListing,        \* the listing of the previous run
    grPrevPc,             \* how the previous run ended
    grReqs,               \* get_reviews: the requests of this run, with what they returned
    grYielded,            \* get_reviews: external ids of the reviews yielded in this run
    \* ---- Github._send_request / Gerrit._make_request ----
    rqBackend,      \* whose fetcher is called
    rqPc,           \* position inside the fetcher
    rqUrl,          \* parameter url
    tries,          \* local variable tries
    rqLog,          \* the requests sent by this call, with the responses
    rqSleeps,       \* the durations this call slept, in seconds
    rqNow,          \* the local clock, in seconds
    rqFirstOk,      \* the first response with status 200 of this call, as it arrived
    rqResult,       \* the value the fetcher returned
    rqCalls,        \* number of fetcher calls made
    \* ---- Gerrit._get_issue_id ----
    lkTopic,        \* parameter topic of the last call
    lkDescription,  \* parameter description of the last call
    lkResult,       \* what the last call returned
    lkFailed,       \* whether the last call ended with an exception
    lkCalls         \* number of calls made

pgVars == <<pgTotal, pgPc, page, dat, ret, pgResult, pgReqs>>
ppVars == <<backend, people, nextId, ghPeopleCache, people_id_cache, ghUsers,
            grAccounts, httpCount, storeOps, calls, lastKey, lastId, lastRepeat, firstId,
            resolved, created, runNo>>
ghVars == <<ghRemote, ghPc, prIdx, rvIdx, cmIdx, mongo_pr, mongo_prr, pullRequests,
            prReviews, prReviewComments, ghPrevRemote, ghPrevStore>>
grVars == <<grRemote, grPc, rIdx, revIdx, review, codeReviews, codeReviewRevisions,
            codeReviewChangeLogs, codeReviewComments, revision_id_cache, issue_id_cache,
            link, issues, grListing, grLimit, oldest_review, yielded_reviews, data,
            grNewest, grDoneAt, grPartial, grPrevListing, grPrevPc, grReqs, grYielded>>
rqVars == <<rqBackend, rqPc, rqUrl, tries, rqLog, rqSleeps, rqNow, rqFirstOk, rqResult,
            rqCalls>>
lkVars == <<lkTopic, lkDescription, lkResult, lkFailed, lkCalls>>
vars == <<pgVars, ppVars, ghVars, grVars, rqVars, lkVars>>

----------------------------------------------------------------------------
(* Bounds *)

MaxRecords == 240      \* largest remote collection paginated
MaxCalls == 3          \* resolve calls per behaviour
MaxRuns == 2           \* sync runs per behaviour
MaxFetches == 2        \* fetcher calls per behaviour

(* Program constants *)

PageSize == 100        \* per_page=100
NoId == 0              \* Python None where an object id is expected
NoTime == -1           \* Python None where a timestamp is expected

None == "None"         \* JSON null in a GitHub payload
Absent == <<>>         \* key absent from a Gerrit payload

Range(s) == {s[i] : i \in DOMAIN s}

Min(a, b) == IF a < b THEN a ELSE b

----------------------------------------------------------------------------
(* Github._fetch_all_pages                                                 *)

\* The remote: page p of a collection of n records, 100 per page.
RemotePage(n, p) ==
    LET lo == (p - 1) * PageSize + 1
        hi == Min(p * PageSize, n)
    IN  IF hi < lo THEN <<>> ELSE [i \in 1..(hi - lo + 1) |-> lo + i - 1]

AllRecords(n) == [i \in 1..n |-> i]

\* line 133: what the loop hands back once dat is empty
LoopReturn(d, r) == d

\* lines 117-121: first request
FetchFirst ==
    /\ pgPc = "idle"
    /\ page' = 1
    /\ dat' = RemotePage(pgTotal, 1)
    /\ ret' = RemotePage(pgTotal, 1)
    /\ pgReqs' = <<Len(RemotePage(pgTotal, 1))>>
    /\ pgPc' = "first"
    /\ UNCHANGED <<pgTotal, pgResult>>

\* lines 124-125: early return
EarlyReturn ==
    /\ pgPc = "first"
    /\ Len(ret) < PageSize
    /\ pgResult' = ret
    /\ pgPc' = "done"
    /\ UNCHANGED <<pgTotal, page, dat, ret, pgReqs>>

\* line 124 false: enter the loop
EnterLoop ==
    /\ pgPc = "first"
    /\ ~(Len(ret) < PageSize)
    /\ pgPc' = "loop"
    /\ UNCHANGED <<pgTotal, page, dat, ret, pgResult, pgReqs>>

\* lines 128-132: one iteration of the loop
FetchNext ==
    /\ pgPc = "loop"
    /\ Len(dat) > 0
    /\ page' = page + 1
    /\ dat' = RemotePage(pgTotal, page + 1)
    /\ ret' = ret \o RemotePage(pgTotal, page + 1)
    /\ pgReqs' = Append(pgReqs, Len(RemotePage(pgTotal, page + 1)))
    /\ UNCHANGED <<pgTotal, pgPc, pgResult>>

\* line 133
LoopExit ==
    /\ pgPc = "loop"
    /\ ~(Len(dat) > 0)
    /\ pgResult' = LoopReturn(dat, ret)
    /\ pgPc' = "done"
    /\ UNCHANGED <<pgTotal, page, dat, ret, pgReqs>>

PagesInit ==
    /\ pgTotal \in 0..MaxRecords
    /\ pgPc = "idle"
    /\ page = 0
    /\ dat = <<>>
    /\ ret = <<>>
    /\ pgResult = <<>>
    /\ pgReqs = <<>>

PagesIdle ==
    /\ pgTotal = 0
    /\ pgPc = "idle"
    /\ page = 0
    /\ dat = <<>>
    /\ ret = <<>>
    /\ pgResult = <<>>
    /\ pgReqs = <<>>

PeopleIdle ==
    /\ backend = "github"
    /\ people = {}
    /\ nextId = 1
    /\ ghPeopleCache = [k \in {} |-> 0]
    /\ people_id_cache = [k \in {} |-> 0]
    /\ ghUsers = [k \in {} |-> 0]
    /\ grAccounts = [k \in {} |-> 0]
    /\ httpCount = 0
    /\ storeOps = 0
    /\ calls = 0
    /\ lastKey = 0
    /\ lastId = NoId
    /\ lastRepeat = FALSE
    /\ firstId = [k \in {} |-> 0]
    /\ resolved = {}
    /\ created = {}
    /\ runNo = 0

GithubIdle ==
    /\ ghRemote = <<>>
    /\ ghPc = "idle"
    /\ prIdx = 0
    /\ rvIdx = 0
    /\ cmIdx = 0
    /\ mongo_pr = NoId
    /\ mongo_prr = NoId
    /\ pullRequests = {}
    /\ prReviews = {}
    /\ prReviewComments = {}
    /\ ghPrevRemote = <<>>
    /\ ghPrevStore = <<{}, {}, {}, {}>>

GerritUnused ==
    /\ grRemote = <<>>
    /\ grReqs = <<>>
    /\ grYielded = <<>>
    /\ grPc = "idle"
    /\ rIdx = 0
    /\ revIdx = 0
    /\ review = <<>>
    /\ codeReviews = {}
    /\ codeReviewRevisions = {}
    /\ codeReviewChangeLogs = {}
    /\ codeReviewComments = {}
    /\ revision_id_cache = [k \in {} |-> 0]
    /\ issue_id_cache = [k \in {} |-> 0]
    /\ grListing = <<>>
    /\ grLimit = 1
    /\ oldest_review = NoTime
    /\ yielded_reviews = 0
    /\ data = <<>>
    /\ grNewest = NoTime
    /\ grDoneAt = {}
    /\ grPartial = {}
    /\ grPrevListing = <<>>
    /\ grPrevPc = "idle"

GerritIdle ==
    /\ GerritUnused
    /\ link = FALSE
    /\ issues = {}

----------------------------------------------------------------------------
(* The fetchers Github._send_request and Gerrit._make_request              *)

MaxTries == 3          \* while tries <= 3
RetrySleep == 2        \* time.sleep(2)
RateLimitSlack == 10   \* the 10 seconds added to the waiting time
StatusOk == 200

\* what Gerrit._make_request hands back after the loop (line 388: {})
EmptyPayload == <<>>

RqUrls == {"url1", "url2"}

\* the statuses a remote answers with
RqStatuses == {StatusOk, 500}

\* the body of the response to the n-th request of a call
RqBody(url, n) == <<url, n>>

\* the rate-limit headers of a response at local time now: absent, or the
\* remaining units with the reset time (epoch seconds)
RqHeaders(now) ==
    {[has |-> FALSE, remaining |-> 0, reset |-> 0]}
    \cup {[has |-> TRUE, remaining |-> r, reset |-> now + d] : r \in 0..2, d \in {-2, 3}}

\* the rate-limit test of line 55, when it re-requests too late
RateLimitExceededBelowOne(hdr) == hdr.has /\ hdr.remaining < 1

\* line 55
RateLimitExceeded(hdr) == hdr.has /\ hdr.remaining <= 1

\* lines 58-62
WaitingTime(hdr, now) == (hdr.reset - now) + RateLimitSlack

LinkIdle ==
    /\ lkTopic = <<>>
    /\ lkDescription = <<>>
    /\ lkResult = [none |-> TRUE, ids |-> {}]
    /\ lkFailed = FALSE
    /\ lkCalls = 0

FetchIdle ==
    /\ rqBackend = "github"
    /\ rqPc = "idle"
    /\ rqUrl = "url1"
    /\ tries = 0
    /\ rqLog = <<>>
    /\ rqSleeps = <<>>
    /\ rqNow = 0
    /\ rqFirstOk = Absent
    /\ rqResult = EmptyPayload
    /\ rqCalls = 0

\* lines 28-44 and 368-371: a caller enters the fetcher
RqCall ==
    /\ rqPc \in {"idle", "returned", "raised"}
    /\ rqCalls < MaxFetches
    /\ rqCalls' = rqCalls + 1
    /\ rqBackend' \in {"github", "gerrit"}
    /\ rqUrl' \in RqUrls
    /\ tries' = 1
    /\ rqLog' = <<>>
    /\ rqSleeps' = <<>>
    /\ rqFirstOk' = Absent
    /\ rqResult' = EmptyPayload
    /\ rqPc' = "loop"
    /\ UNCHANGED rqNow

\* one attempt answered with a non-success status: lines 47-52 and 373-382
RqAttemptFailed(b) ==
    /\ rqPc = "loop"
    /\ rqBackend = b
    /\ tries <= MaxTries
    /\ \E st \in RqStatuses \ {StatusOk} :
          rqLog' = Append(rqLog, [url |-> rqUrl, status |-> st,
                                  body |-> RqBody(rqUrl, Len(rqLog) + 1)])
    /\ tries' = tries + 1
    /\ rqSleeps' = Append(rqSleeps, RetrySleep)
    /\ rqNow' = rqNow + RetrySleep
    /\ UNCHANGED <<rqBackend, rqPc, rqUrl, rqFirstOk, rqResult, rqCalls>>

\* lines 47-52
SendRequestFailed == RqAttemptFailed("github")

\* lines 373-382
MakeRequestFailed == RqAttemptFailed("gerrit")

\* lines 53-71: status 200, no waiting
SendRequestOk ==
    /\ rqPc = "loop"
    /\ rqBackend = "github"
    /\ tries <= MaxTries
    /\ \E hdr \in RqHeaders(rqNow) :
          /\ ~RateLimitExceeded(hdr)
          /\ rqFirstOk' = [hdr |-> hdr, now |-> rqNow, n |-> Len(rqLog) + 1]
    /\ rqLog' = Append(rqLog, [url |-> rqUrl, status |-> StatusOk,
                               body |-> RqBody(rqUrl, Len(rqLog) + 1)])
    /\ rqResult' = RqBody(rqUrl, Len(rqLog) + 1)
    /\ rqPc' = "returned"
    /\ UNCHANGED <<rqBackend, rqUrl, tries, rqSleeps, rqNow, rqCalls>>

\* lines 53-71: status 200 with the rate limit used up: wait, request again
\* (line 67) and return the json of that response, whatever its status
SendRequestRateLimited ==
    /\ rqPc = "loop"
    /\ rqBackend = "github"
    /\ tries <= MaxTries
    /\ \E hdr \in RqHeaders(rqNow) : \E st \in RqStatuses :
          /\ RateLimitExceeded(hdr)
          /\ rqFirstOk' = [hdr |-> hdr, now |-> rqNow, n |-> Len(rqLog) + 1]
          /\ rqSleeps' = Append(rqSleeps, WaitingTime(hdr, rqNow))
          /\ rqNow' = rqNow + WaitingTime(hdr, rqNow)
          /\ rqLog' = rqLog \o <<[url |-> rqUrl, status |-> StatusOk,
                                  body |-> RqBody(rqUrl, Len(rqLog) + 1)],
                                 [url |-> rqUrl, status |-> st,
                                  body |-> RqBody(rqUrl, Len(rqLog) + 2)]>>
    /\ rqResult' = RqBody(rqUrl, Len(rqLog) + 2)
    /\ rqPc' = "returned"
    /\ UNCHANGED <<rqBackend, rqUrl, tries, rqCalls>>

\* line 73: the loop ended without a return
SendRequestRaise ==
    /\ rqPc = "loop"
    /\ rqBackend = "github"
    /\ tries > MaxTries
    /\ rqPc' = "raised"
    /\ UNCHANGED <<rqBackend, rqUrl, tries, rqLog, rqSleeps, rqNow, rqFirstOk, rqResult,
                   rqCalls>>

\* lines 383-386
MakeRequestOk ==
    /\ rqPc = "loop"
    /\ rqBackend = "gerrit"
    /\ tries <= MaxTries
    /\ rqFirstOk' = [hdr |-> [has |-> FALSE, remaining |-> 0, reset |-> 0],
                     now |-> rqNow, n |-> Len(rqLog) + 1]
    /\ rqLog' = Append(rqLog, [url |-> rqUrl, status |-> StatusOk,
                               body |-> RqBody(rqUrl, Len(rqLog) + 1)])
    /\ rqResult' = RqBody(rqUrl, Len(rqLog) + 1)
    /\ rqPc' = "returned"
    /\ UNCHANGED <<rqBackend, rqUrl, tries, rqSleeps, rqNow, rqCalls>>

\* line 388: the loop ended without a return
MakeRequestGiveUp ==
    /\ rqPc = "loop"
    /\ rqBackend = "gerrit"
    /\ tries > MaxTries
    /\ rqResult' = EmptyPayload
    /\ rqPc' = "returned"
    /\ UNCHANGED <<rqBackend, rqUrl, tries, rqLog, rqSleeps, rqNow, rqFirstOk, rqCalls>>

FetchNextStep ==
    \/ RqCall /\ UNCHANGED <<pgVars, ppVars, ghVars, grVars, lkVars>>
    \/ SendRequestFailed /\ UNCHANGED <<pgVars, ppVars, ghVars, grVars, lkVars>>
    \/ SendRequestOk /\ UNCHANGED <<pgVars, ppVars, ghVars, grVars, lkVars>>
    \/ SendRequestRateLimited /\ UNCHANGED <<pgVars, ppVars, ghVars, grVars, lkVars>>
    \/ SendRequestRaise /\ UNCHANGED <<pgVars, ppVars, ghVars, grVars, lkVars>>
    \/ MakeRequestFailed /\ UNCHANGED <<pgVars, ppVars, ghVars, grVars, lkVars>>
    \/ MakeRequestOk /\ UNCHANGED <<pgVars, ppVars, ghVars, grVars, lkVars>>
    \/ MakeRequestGiveUp /\ UNCHANGED <<pgVars, ppVars, ghVars, grVars, lkVars>>

InitFetch == FetchIdle /\ PagesIdle /\ PeopleIdle /\ GithubIdle /\ GerritIdle /\ LinkIdle

SpecFetch == InitFetch /\ [][FetchNextStep]_vars

----------------------------------------------------------------------------
(* The People collection and the two identity resolvers                    *)

EmptyMap == [k \in {} |-> NoId]

Put(m, k, v) == [x \in DOMAIN m \cup {k} |-> IF x = k THEN v ELSE m[x]]

\* a store lookup that is known to match: the matching document's id
OneId(S) == (CHOOSE p \in S : TRUE).id

\* The state both resolvers work on: st = [people, nextId, cache, http, ops];
\* http and ops count the requests and the store operations of the call.
PeopleState(cache) ==
    [people |-> people, nextId |-> nextId, cache |-> cache,
     http |-> 0, ops |-> 0]

\* ---- Github._get_person ----

\* lines 96-103
GhName(raw) == IF raw.name = None THEN raw.login ELSE raw.name

GhEmail(raw) == IF raw.email = None THEN "null" ELSE raw.email

\* lines 105-108: People.objects(name, email).upsert_one(name, email, username)
GhUpsertPerson(st, raw) ==
    LET name == GhName(raw)
        email == GhEmail(raw)
        hit == {p \in st.people : p.name = name /\ p.email = email}
    IN  IF hit = {}
        THEN [st |-> [st EXCEPT !.people = @ \cup {[id |-> st.nextId, name |-> name,
                                                   email |-> email, username |-> raw.login]},
                                !.nextId = @ + 1,
                                !.ops = @ + 1],
              id |-> st.nextId]
        ELSE [st |-> [st EXCEPT !.people = (@ \ hit) \cup
                                    {[p EXCEPT !.username = raw.login] : p \in hit},
                                !.ops = @ + 1],
              id |-> OneId(hit)]

\* lines 92-93 of the mutant: the cache is never consulted
GhGetPersonNoCache(st, url, users) ==
    LET up == GhUpsertPerson([st EXCEPT !.http = @ + 1], users[url])
    IN  [st |-> [up.st EXCEPT !.cache = Put(@, url, up.id)], id |-> up.id]

\* lines 85-110
GhGetPerson(st, url, users) ==
    IF url \in DOMAIN st.cache
    THEN [st |-> st, id |-> st.cache[url]]
    ELSE LET up == GhUpsertPerson([st EXCEPT !.http = @ + 1], users[url])
         IN  [st |-> [up.st EXCEPT !.cache = Put(@, url, up.id)], id |-> up.id]

\* ---- Gerrit._store_people / Gerrit._get_people_id ----

\* lines 348-350
GrName(raw) == IF raw.name = Absent THEN <<"no_name.gerrit.reviewSHARK">> ELSE raw.name

GrUsername(raw) ==
    IF raw.username = Absent
    THEN GrName(raw) \o <<"@no_username.gerrit.reviewSHARK">>
    ELSE raw.username

GrEmail(raw) ==
    IF raw.email = Absent
    THEN GrUsername(raw) \o <<"@no_email.gerrit.reviewSHARK">>
    ELSE raw.email

\* lines 352-366: the two lookups and the insert, for the derived fields
StorePeopleAs(st, name, username, email) ==
    LET byEmail == {p \in st.people : p.email = email /\ p.name = name}
        byUser == {p \in st.people : p.username = username /\ p.name = name}
    IN  IF byEmail # {}
        THEN [st |-> [st EXCEPT !.ops = @ + 1], id |-> OneId(byEmail)]
        ELSE IF byUser # {}
        THEN [st |-> [st EXCEPT !.ops = @ + 2], id |-> OneId(byUser)]
        ELSE [st |-> [st EXCEPT !.people = @ \cup {[id |-> st.nextId, name |-> name,
                                                   email |-> email, username |-> username]},
                                !.nextId = @ + 1,
                                !.ops = @ + 3],
              id |-> st.nextId]

\* lines 345-366
StorePeople(st, raw) == StorePeopleAs(st, GrName(raw), GrUsername(raw), GrEmail(raw))

\* line 413: the person sp just stored is cached under the account id
CachePeopleId(sp, account_id) ==
    [st |-> [sp.st EXCEPT !.cache = Put(@, account_id, sp.id)], id |-> sp.id]

\* lines 405-415; raw = Absent stands for a missing (None) actor
GetPeopleId(st, raw) ==
    IF raw = Absent
    THEN [st |-> st, id |-> NoId]
    ELSE IF raw._account_id \notin DOMAIN st.cache
    THEN CachePeopleId(StorePeople(st, raw), raw._account_id)
    ELSE [st |-> st, id |-> st.cache[raw._account_id]]

\* ---- the remote's actors ----

GhUrls == {"users/l1", "users/l2"}

GhLogin(url) == IF url = "users/l1" THEN "l1" ELSE "l2"

GhUserSets ==
    {[u \in GhUrls |-> [login |-> GhLogin(u), name |-> f[u].name, email |-> f[u].email]] :
        f \in [GhUrls -> [name : {None, "N"}, email : {None, "E"}]]}

GrAccountIds == {1, 2}

\* The directories the remote may serve: per account an email and a username
\* that are present or absent, and one display name (present or absent) that
\* the accounts share.
GrAccountSets ==
    {[a \in GrAccountIds |-> [_account_id |-> a, name |-> n, email |-> f[a].email,
                              username |-> IF f[a].hasUser THEN <<"user", a>> ELSE Absent]] :
        f \in [GrAccountIds -> [email : {Absent, <<"E">>}, hasUser : BOOLEAN]],
        n \in {Absent, <<"N">>}}

\* ---- resolve calls, one per step ----

\* Github.__init__ (line 26) / a new process or a further Gerrit instance (lines 36-37)
PplStartRun ==
    /\ runNo < MaxRuns
    /\ runNo' = runNo + 1
    /\ \/ /\ backend = "github"
          /\ ghUsers' \in GhUserSets
          /\ ghPeopleCache' = EmptyMap
          /\ UNCHANGED <<grAccounts, people_id_cache>>
       \/ /\ backend = "gerrit"
          /\ grAccounts' \in GrAccountSets
          /\ \E newProcess \in BOOLEAN :
                people_id_cache' = IF newProcess THEN EmptyMap ELSE people_id_cache
          /\ UNCHANGED <<ghUsers, ghPeopleCache>>
    /\ firstId' = EmptyMap
    /\ UNCHANGED <<backend, people, nextId, httpCount, storeOps, calls, lastKey, lastId,
                   lastRepeat, resolved, created>>

GhResolve(url) ==
    /\ backend = "github"
    /\ runNo >= 1
    /\ calls < MaxCalls
    /\ LET r == GhGetPerson(PeopleState(ghPeopleCache), url, ghUsers)
           raw == ghUsers[url]
       IN  /\ people' = r.st.people
           /\ nextId' = r.st.nextId
           /\ ghPeopleCache' = r.st.cache
           /\ httpCount' = r.st.http
           /\ storeOps' = r.st.ops
           /\ lastId' = r.id
           /\ resolved' = resolved \cup
                 {[name |-> GhName(raw), email |-> GhEmail(raw), key |-> url, id |-> r.id]}
           /\ created' = IF r.st.nextId = nextId THEN created ELSE created \cup
                 {[id |-> r.id,
                   byEmail |-> \E p \in people : p.email = GhEmail(raw) /\ p.name = GhName(raw),
                   byUser |-> \E p \in people : p.username = raw.login /\ p.name = GhName(raw)]}
    /\ calls' = calls + 1
    /\ lastKey' = url
    /\ lastRepeat' = (url \in DOMAIN firstId)
    /\ firstId' = IF url \in DOMAIN firstId THEN firstId ELSE Put(firstId, url, lastId')
    /\ UNCHANGED <<backend, people_id_cache, ghUsers, grAccounts, runNo>>

GrResolve(a) ==
    /\ backend = "gerrit"
    /\ runNo >= 1
    /\ calls < MaxCalls
    /\ LET raw == grAccounts[a]
           r == GetPeopleId(PeopleState(people_id_cache), raw)
       IN  /\ people' = r.st.people
           /\ nextId' = r.st.nextId
           /\ people_id_cache' = r.st.cache
           /\ httpCount' = r.st.http
           /\ storeOps' = r.st.ops
           /\ lastId' = r.id
           /\ resolved' = resolved \cup
                 {[name |-> GrName(raw), email |-> GrEmail(raw), key |-> a, id |-> r.id]}
           /\ created' = IF r.st.nextId = nextId THEN created ELSE created \cup
                 {[id |-> r.id,
                   byEmail |-> \E p \in people : p.email = GrEmail(raw) /\ p.name = GrName(raw),
                   byUser |-> \E p \in people : p.username = GrUsername(raw) /\ p.name = GrName(raw)]}
    /\ calls' = calls + 1
    /\ lastKey' = a
    /\ lastRepeat' = (a \in DOMAIN firstId)
    /\ firstId' = IF a \in DOMAIN firstId THEN firstId ELSE Put(firstId, a, lastId')
    /\ UNCHANGED <<backend, ghPeopleCache, ghUsers, grAccounts, runNo>>

PeopleInit ==
    /\ backend \in {"github", "gerrit"}
    /\ people = {}
    /\ nextId = 1
    /\ ghPeopleCache = EmptyMap
    /\ people_id_cache = EmptyMap
    /\ ghUsers = EmptyMap
    /\ grAccounts = EmptyMap
    /\ httpCount = 0
    /\ storeOps = 0
    /\ calls = 0
    /\ lastKey = IF backend = "github" THEN "" ELSE 0
    /\ lastId = NoId
    /\ lastRepeat = FALSE
    /\ firstId = EmptyMap
    /\ resolved = {}
    /\ created = {}
    /\ runNo = 0

PeopleNext ==
    \/ PplStartRun /\ UNCHANGED <<pgVars, ghVars, grVars, rqVars, lkVars>>
    \/ \E url \in GhUrls : GhResolve(url) /\ UNCHANGED <<pgVars, ghVars, grVars, rqVars, lkVars>>
    \/ \E a \in GrAccountIds : GrResolve(a) /\ UNCHANGED <<pgVars, ghVars, grVars, rqVars, lkVars>>

InitPeople == PeopleInit /\ PagesIdle /\ GithubIdle /\ GerritIdle /\ FetchIdle /\ LinkIdle

SpecPeople == InitPeople /\ [][PeopleNext]_vars

PagesNext ==
    \/ FetchFirst /\ UNCHANGED <<ppVars, ghVars, grVars, rqVars, lkVars>>
    \/ EarlyReturn /\ UNCHANGED <<ppVars, ghVars, grVars, rqVars, lkVars>>
    \/ EnterLoop /\ UNCHANGED <<ppVars, ghVars, grVars, rqVars, lkVars>>
    \/ FetchNext /\ UNCHANGED <<ppVars, ghVars, grVars, rqVars, lkVars>>
    \/ LoopExit /\ UNCHANGED <<ppVars, ghVars, grVars, rqVars, lkVars>>

InitPages == PagesInit /\ PeopleIdle /\ GithubIdle /\ GerritIdle /\ FetchIdle /\ LinkIdle

SpecPages == InitPages /\ [][PagesNext]_vars

----------------------------------------------------------------------------
(* Github.run / Github.parse_pr_list                                       *)

GhX == "users/l1"

GhY == "users/l2"

\* The remote's review comments: "b" is a reply to "a".
CmA == [id |-> "a", in_reply_to_id |-> None, body |-> "body-a", user |-> GhX]

CmB == [id |-> "b", in_reply_to_id |-> "a", body |-> "body-b", user |-> GhY]

Rv(id, comments) == [id |-> id, state |-> "COMMENTED", user |-> GhX, comments |-> comments]

\* what fetch_review_list / fetch_review_comment_list answer for a pull request
GhReviewLayouts ==
    { <<>>,
      <<Rv("r1", <<CmA, CmB>>)>>,
      <<Rv("r1", <<CmB, CmA>>)>>,
      <<Rv("r1", <<CmB>>), Rv("r2", <<CmA>>)>>,
      <<Rv("r1", <<CmA>>), Rv("r2", <<CmB>>)>> }

Pr(number, title, assignees, reviewers, labels, reviews) ==
    [number |-> number, title |-> title, user |-> GhX,
     assignee |-> IF assignees = <<>> THEN None ELSE Head(assignees),
     assignees |-> assignees, requested_reviewers |-> reviewers,
     labels |-> labels, reviews |-> reviews]

\* what fetch_pr_list answers: one pull request in every shape, or two
GhListings ==
    {<<Pr("1", t, IF x THEN <<GhX>> ELSE <<>>, r, IF x THEN <<"bug">> ELSE <<>>, l)>> :
        t \in {"t1", "t2"}, x \in BOOLEAN, r \in {<<>>, <<GhX>>, <<GhX, GhY>>},
        l \in GhReviewLayouts}
    \cup {<<Pr("1", "t1", <<>>, <<GhX>>, <<>>, <<>>), Pr("2", "t1", <<>>, <<>>, <<>>, <<>>)>>}

\* Document.save(): an insert hands out a new id, a later save replaces by id
SaveDoc(coll, doc, nid) ==
    IF doc.id = NoId
    THEN [coll |-> coll \cup {[doc EXCEPT !.id = nid]}, id |-> nid, nextId |-> nid + 1]
    ELSE [coll |-> {d \in coll : d.id # doc.id} \cup {doc}, id |-> doc.id, nextId |-> nid]

RECURSIVE GhGetPersons(_, _, _)
\* the loops of lines 242-246: _get_person for each user of a list, in order
GhGetPersons(st, urls, users) ==
    IF urls = <<>>
    THEN [st |-> st, ids |-> <<>>]
    ELSE LET h == GhGetPerson(st, Head(urls), users)
             t == GhGetPersons(h.st, Tail(urls), users)
         IN  [st |-> t.st, ids |-> <<h.id>> \o t.ids]

\* lines 202-205
GetPullRequest(coll, number) ==
    LET found == {d \in coll : d.external_id = number}
    IN  IF found # {}
        THEN CHOOSE d \in found : TRUE
        ELSE [id |-> NoId, external_id |-> number, title |-> None, assignee_id |-> NoId,
              creator_id |-> NoId, linked_user_ids |-> <<>>,
              requested_reviewer_ids |-> <<>>, labels |-> <<>>]

\* lines 207-249: the fields of the document after parsing raw pull request pr
ParsePullRequest(doc, pr, st, users) ==
    LET a == IF pr.assignee # None
             THEN GhGetPerson(st, pr.assignee, users)
             ELSE [st |-> st, id |-> doc.assignee_id]
        c == GhGetPerson(a.st, pr.user, users)
        l == GhGetPersons(c.st, pr.assignees, users)
        r == GhGetPersons(l.st, pr.requested_reviewers, users)
    IN  [st |-> r.st,
         doc |-> [doc EXCEPT !.title = pr.title,
                             !.assignee_id = a.id,
                             !.creator_id = c.id,
                             !.linked_user_ids = @ \o l.ids,
                             !.requested_reviewer_ids = @ \o r.ids,
                             !.labels = @ \o pr.labels]]

\* lines 254-257
GetReview(coll, prId, ext) ==
    LET found == {d \in coll : d.pull_request_id = prId /\ d.external_id = ext}
    IN  IF found # {}
        THEN CHOOSE d \in found : TRUE
        ELSE [id |-> NoId, pull_request_id |-> prId, external_id |-> ext, state |-> None,
              creator_id |-> NoId]

\* lines 269-272 and 296-299
GetReviewComment(coll, prrId, ext) ==
    LET found == {d \in coll : d.pull_request_review_id = prrId /\ d.external_id = ext}
    IN  IF found # {}
        THEN CHOOSE d \in found : TRUE
        ELSE [id |-> NoId, pull_request_review_id |-> prrId, external_id |-> ext,
              comment |-> None, creator_id |-> NoId, in_reply_to_id |-> NoId]

\* lines 295-301: the comment a reply refers to, created empty when not stored yet
ResolveReplyTarget(coll, prrId, ext, nid) ==
    SaveDoc(coll, GetReviewComment(coll, prrId, ext), nid)

\* Github.__init__ and line 137: a new connector instance fetches the listing
GhStartRun ==
    /\ ghPc \in {"idle", "done"}
    /\ runNo < MaxRuns
    /\ runNo' = runNo + 1
    /\ ghRemote' \in GhListings
    /\ ghPrevRemote' = ghRemote
    /\ ghPrevStore' = <<people, pullRequests, prReviews, prReviewComments>>
    /\ ghPeopleCache' = EmptyMap
    /\ ghPc' = "pr"
    /\ prIdx' = 1
    /\ UNCHANGED <<rvIdx, cmIdx, mongo_pr, mongo_prr, pullRequests, prReviews,
                   prReviewComments>>
    /\ UNCHANGED <<backend, people, nextId, people_id_cache, ghUsers, grAccounts,
                   httpCount, storeOps, calls, lastKey, lastId, lastRepeat, firstId,
                   resolved, created>>

\* lines 200-250: one pull request of the listing
GhStorePullRequest ==
    /\ ghPc = "pr"
    /\ prIdx <= Len(ghRemote)
    /\ LET pr == ghRemote[prIdx]
           parsed == ParsePullRequest(GetPullRequest(pullRequests, pr.number), pr,
                                      PeopleState(ghPeopleCache), ghUsers)
           saved == SaveDoc(pullRequests, parsed.doc, parsed.st.nextId)
       IN  /\ people' = parsed.st.people
           /\ ghPeopleCache' = parsed.st.cache
           /\ pullRequests' = saved.coll
           /\ nextId' = saved.nextId
           /\ mongo_pr' = saved.id
    /\ ghPc' = "review"
    /\ rvIdx' = 1
    /\ UNCHANGED <<ghRemote, prIdx, cmIdx, mongo_prr, prReviews, prReviewComments,
                   ghPrevRemote, ghPrevStore>>
    /\ UNCHANGED <<backend, people_id_cache, ghUsers, grAccounts, httpCount, storeOps,
                   calls, lastKey, lastId, lastRepeat, firstId, resolved, created, runNo>>

\* lines 253-265: one review of the pull request
GhStoreReview ==
    /\ ghPc = "review"
    /\ rvIdx <= Len(ghRemote[prIdx].reviews)
    /\ LET prr == ghRemote[prIdx].reviews[rvIdx]
           doc == GetReview(prReviews, mongo_pr, prr.id)
           c == GhGetPerson(PeopleState(ghPeopleCache), prr.user, ghUsers)
           saved == SaveDoc(prReviews,
                            [doc EXCEPT !.state = prr.state, !.creator_id = c.id],
                            c.st.nextId)
       IN  /\ people' = c.st.people
           /\ ghPeopleCache' = c.st.cache
           /\ prReviews' = saved.coll
           /\ nextId' = saved.nextId
           /\ mongo_prr' = saved.id
    /\ ghPc' = "comment"
    /\ cmIdx' = 1
    /\ UNCHANGED <<ghRemote, prIdx, rvIdx, mongo_pr, pullRequests, prReviewComments,
                   ghPrevRemote, ghPrevStore>>
    /\ UNCHANGED <<backend, people_id_cache, ghUsers, grAccounts, httpCount, storeOps,
                   calls, lastKey, lastId, lastRepeat, firstId, resolved, created, runNo>>

\* lines 268-302: one comment of the review
GhStoreReviewComment ==
    /\ ghPc = "comment"
    /\ cmIdx <= Len(ghRemote[prIdx].reviews[rvIdx].comments)
    /\ LET prrc == ghRemote[prIdx].reviews[rvIdx].comments[cmIdx]
           doc == GetReviewComment(prReviewComments, mongo_prr, prrc.id)
           c == GhGetPerson(PeopleState(ghPeopleCache), prrc.user, ghUsers)
           doc1 == [doc EXCEPT !.comment = prrc.body, !.creator_id = c.id]
           ref == IF prrc.in_reply_to_id # None
                  THEN ResolveReplyTarget(prReviewComments, mongo_prr,
                                          prrc.in_reply_to_id, c.st.nextId)
                  ELSE [coll |-> prReviewComments, id |-> doc.in_reply_to_id,
                        nextId |-> c.st.nextId]
           saved == SaveDoc(ref.coll, [doc1 EXCEPT !.in_reply_to_id = ref.id], ref.nextId)
       IN  /\ people' = c.st.people
           /\ ghPeopleCache' = c.st.cache
           /\ prReviewComments' = saved.coll
           /\ nextId' = saved.nextId
    /\ cmIdx' = cmIdx + 1
    /\ UNCHANGED <<ghRemote, ghPc, prIdx, rvIdx, mongo_pr, mongo_prr, pullRequests,
                   prReviews, ghPrevRemote, ghPrevStore>>
    /\ UNCHANGED <<backend, people_id_cache, ghUsers, grAccounts, httpCount, storeOps,
                   calls, lastKey, lastId, lastRepeat, firstId, resolved, created, runNo>>

\* line 268: the comments of the review are exhausted
GhNextReview ==
    /\ ghPc = "comment"
    /\ cmIdx > Len(ghRemote[prIdx].reviews[rvIdx].comments)
    /\ ghPc' = "review"
    /\ rvIdx' = rvIdx + 1
    /\ UNCHANGED <<ghRemote, prIdx, cmIdx, mongo_pr, mongo_prr, pullRequests, prReviews,
                   prReviewComments, ghPrevRemote, ghPrevStore>>
    /\ UNCHANGED ppVars

\* line 253: the reviews of the pull request are exhausted
GhNextPullRequest ==
    /\ ghPc = "review"
    /\ rvIdx > Len(ghRemote[prIdx].reviews)
    /\ ghPc' = "pr"
    /\ prIdx' = prIdx + 1
    /\ UNCHANGED <<ghRemote, rvIdx, cmIdx, mongo_pr, mongo_prr, pullRequests, prReviews,
                   prReviewComments, ghPrevRemote, ghPrevStore>>
    /\ UNCHANGED ppVars

\* line 200: the listing is exhausted, run() returns
GhFinishRun ==
    /\ ghPc = "pr"
    /\ prIdx > Len(ghRemote)
    /\ ghPc' = "done"
    /\ UNCHANGED <<ghRemote, prIdx, rvIdx, cmIdx, mongo_pr, mongo_prr, pullRequests,
                   prReviews, prReviewComments, ghPrevRemote, ghPrevStore>>
    /\ UNCHANGED ppVars

GithubInit ==
    /\ backend = "github"
    /\ people = {}
    /\ nextId = 1
    /\ ghPeopleCache = EmptyMap
    /\ people_id_cache = EmptyMap
    /\ ghUsers = [u \in GhUrls |-> [login |-> GhLogin(u), name |-> None, email |-> None]]
    /\ grAccounts = EmptyMap
    /\ httpCount = 0
    /\ storeOps = 0
    /\ calls = 0
    /\ lastKey = ""
    /\ lastId = NoId
    /\ lastRepeat = FALSE
    /\ firstId = EmptyMap
    /\ resolved = {}
    /\ created = {}
    /\ runNo = 0

GithubNext ==
    \/ GhStartRun /\ UNCHANGED <<pgVars, grVars, rqVars, lkVars>>
    \/ GhStorePullRequest /\ UNCHANGED <<pgVars, grVars, rqVars, lkVars>>
    \/ GhStoreReview /\ UNCHANGED <<pgVars, grVars, rqVars, lkVars>>
    \/ GhStoreReviewComment /\ UNCHANGED <<pgVars, grVars, rqVars, lkVars>>
    \/ GhNextReview /\ UNCHANGED <<pgVars, grVars, rqVars, lkVars>>
    \/ GhNextPullRequest /\ UNCHANGED <<pgVars, grVars, rqVars, lkVars>>
    \/ GhFinishRun /\ UNCHANGED <<pgVars, grVars, rqVars, lkVars>>

InitGithub == GithubInit /\ PagesIdle /\ GithubIdle /\ GerritIdle /\ FetchIdle /\ LinkIdle

SpecGithub == InitGithub /\ [][GithubNext]_vars

----------------------------------------------------------------------------
(* Gerrit.run and the store_* methods                                      *)
(* External ids of the remote are numbers above 100, never equal to an     *)
(* object id of the store.                                                 *)

RawComment(id, inReplyTo) ==
    [id |-> id, patch_set |-> 1, author |-> 2, message |-> <<"comment", id>>,
     in_reply_to |-> inReplyTo, file_path |-> "f.py"]

\* comment 402 is a reply to comment 401
RawA == RawComment(401, NoId)

RawB == RawComment(402, 401)

RawMessage(id, number) ==
    [id |-> id, _revision_number |-> number, author |-> 1, message |-> <<"message", id>>]

\* message 301 with another text
EditedMessage == [RawMessage(301, 1) EXCEPT !.message = <<"edited", 301>>]

\* commit_with_footers is the commit message as the list of the places where
\* one of the two patterns of _get_issue_id matches ("bug", "bp") and of the
\* text between them ("text"); <<>> is a missing commit message
RawRevision(ext, number, reviewer, removed, cc) ==
    [revision_external_id |-> ext, _number |-> number, owner |-> 1,
     REVIEWER |-> reviewer, REMOVED |-> removed, CC |-> cc, commit_with_footers |-> <<>>]

\* topic is the topic string as the list of its parts between '/' (<<>> when
\* the review has none); updated is a time in ticks
RawReview(id, subject, updated, revisions, messages, comments) ==
    [id |-> id, subject |-> subject, updated |-> updated, owner |-> 1, topic |-> <<>>,
     revisions |-> revisions, messages |-> messages, comments |-> comments,
     _more_changes |-> FALSE]

\* the review r with topic t and with the commit message d on its last revision
Linking(r, t, d) ==
    [r EXCEPT !.topic = t, !.revisions[Len(r.revisions)].commit_with_footers = d]

BugRef(ref) == [kind |-> "bug", ref |-> ref]

BpRef(ref) == [kind |-> "bp", ref |-> ref]

Text == [kind |-> "text", ref |-> ""]

BaseRevisions == <<RawRevision(201, 1, <<1, 2>>, <<>>, <<>>)>>

BaseMessages == <<RawMessage(301, 1)>>

\* what the remote may answer to get_reviews and to the requests per review
GrListings ==
    {<<>>}
    \cup {<<RawReview(101, "s1", u, BaseRevisions, BaseMessages, <<>>)>> : u \in {1, 4}}
    \cup {<<RawReview(101, "s2", 4, BaseRevisions, <<EditedMessage>>, <<>>)>>}
    \cup {<<RawReview(101, "s1", 1, BaseRevisions, BaseMessages, <<>>),
            RawReview(101, "s2", 1, BaseRevisions, <<EditedMessage>>, <<>>)>>}
    \cup {<<RawReview(102, "s1", 5, <<RawRevision(203, 1, <<2>>, <<>>, <<>>)>>,
                      <<RawMessage(304, 1)>>, <<>>),
            RawReview(101, "s1", 1, BaseRevisions, BaseMessages, <<>>)>>}
    \cup {<<RawReview(101, "s1", 1, BaseRevisions, <<RawMessage(303, 9)>>, <<>>),
            RawReview(102, "s1", 1, <<RawRevision(203, 1, <<2>>, <<>>, <<>>)>>,
                      <<RawMessage(304, 1)>>, <<>>)>>}
    \cup {<<Linking(RawReview(101, "s1", 1, BaseRevisions, BaseMessages, <<>>), l[1], l[2])>> :
            l \in {<<<<"bug", "1234">>, <<>>>>,
                   <<<<"999">>, <<Text, BugRef("1234"), Text, BpRef("name-of-task")>>>>,
                   <<<<>>, <<Text, BugRef("999")>>>>}}
    \cup {<<RawReview(101, "s1", 1, <<RawRevision(201, 1, r[1], r[2], r[3])>>,
                      BaseMessages, <<>>)>> :
            r \in {<<<<1>>, <<2>>, <<>>>>, <<<<1>>, <<>>, <<2>>>>}}
    \cup {<<RawReview(101, "s1", 1,
                      <<RawRevision(201, 1, <<1>>, <<>>, <<>>),
                        RawRevision(202, 2, <<1>>, <<>>, <<>>)>>,
                      <<RawMessage(301, 1), RawMessage(302, 2)>>,
                      <<[RawA EXCEPT !.patch_set = 2]>>)>>}
    \cup {<<RawReview(101, "s1", 1, BaseRevisions, m, <<>>)>> :
            m \in {<<RawMessage(301, 1), RawMessage(301, 1)>>, <<RawMessage(303, 9)>>}}
    \cup {<<RawReview(101, "s1", 1, BaseRevisions, BaseMessages, c)>> :
            c \in {<<RawA, RawB>>, <<RawB, RawA>>, <<RawB>>, <<RawA, RawA>>}}
    \cup {<<RawReview(101, "s1", 1, BaseRevisions, BaseMessages, <<>>),
            RawReview(102, "s1", 2, <<RawRevision(203, 1, <<2>>, <<>>, <<>>)>>,
                      <<RawMessage(304, 1)>>, <<RawB>>)>>}

\* the raw account record a payload carries for account a (None when a is absent)
RawAccount(a) == IF a = NoId THEN Absent ELSE grAccounts[a]

\* the environment a store_* method works in:
\* st = the People state, rcache = revision_id_cache, failed = an exception escaped
Env(st, rcache) == [st |-> st, rcache |-> rcache, failed |-> FALSE]

\* one more id at the front of a resolved list
PrependId(id, t) == [st |-> t.st, ids |-> <<id>> \o t.ids]

RECURSIVE GetPeopleIds(_, _)
RECURSIVE GetPeopleIdsAfter(_, _)
\* the list comprehensions of lines 279-287: the accounts after the first
GetPeopleIdsAfter(h, accounts) == PrependId(h.id, GetPeopleIds(h.st, accounts))

\* the list comprehensions of lines 279-287
GetPeopleIds(st, accounts) ==
    IF accounts = <<>>
    THEN [st |-> st, ids |-> <<>>]
    ELSE GetPeopleIdsAfter(GetPeopleId(st, RawAccount(Head(accounts))), Tail(accounts))

\* objects.insert(list): every document of the list gets a new id
InsertMany(coll, docs, nid) ==
    [coll |-> coll \cup {[docs[i] EXCEPT !.id = nid + i - 1] : i \in 1..Len(docs)},
     nextId |-> nid + Len(docs)]

\* objects.get(external_id=...) or a new document; found holds the matches
FoundOrNew(found, new) == IF found # {} THEN CHOOSE d \in found : TRUE ELSE new

\* lines 390-403 of the mutant: the cache is keyed by the review alone
GetRevisionIdCachedPerReview(rcache, revs, code_review_id, revision_number) ==
    LET key == <<code_review_id, 1>>
        found == {d \in revs : d.code_review_id = code_review_id
                                /\ d.revision_number = revision_number}
    IN  IF key \in DOMAIN rcache
        THEN [rcache |-> rcache, id |-> rcache[key], failed |-> FALSE]
        ELSE IF Cardinality(found) # 1
        THEN [rcache |-> rcache, id |-> NoId, failed |-> TRUE]
        ELSE [rcache |-> Put(rcache, key, OneId(found)), id |-> OneId(found),
              failed |-> FALSE]

\* lines 390-403; objects.get raises unless exactly one document matches
GetRevisionId(rcache, revs, code_review_id, revision_number) ==
    LET key == <<code_review_id, revision_number>>
        found == {d \in revs : d.code_review_id = code_review_id
                                /\ d.revision_number = revision_number}
    IN  IF key \in DOMAIN rcache
        THEN [rcache |-> rcache, id |-> rcache[key], failed |-> FALSE]
        ELSE IF Cardinality(found) # 1
        THEN [rcache |-> rcache, id |-> NoId, failed |-> TRUE]
        ELSE [rcache |-> Put(rcache, key, OneId(found)), id |-> OneId(found),
              failed |-> FALSE]

\* lines 157-161: the commit message of the last revision (<<>> for None)
GetDescriptionFromRevisions(raw) ==
    IF raw.revisions = <<>>
    THEN <<>>
    ELSE raw.revisions[Len(raw.revisions)].commit_with_footers

\* lines 174-175: topic.split("/")[-1], for a topic that is not empty
TopicCandidates(topic) == IF topic = <<>> THEN {} ELSE {topic[Len(topic)]}

\* lines 176-185: what the two patterns capture in the description
DescriptionCandidates(description) ==
    {description[i].ref : i \in {j \in DOMAIN description :
                                     description[j].kind \in {"bug", "bp"}}}

\* line 195: the documents Issue.objects.get(external_id=c) matches
IssuesNamed(iss, c) == {i \in iss : i.external_id = c}

\* linked_issue_ids when linking is off (line 170: None)
NoLinks == [none |-> TRUE, ids |-> {}]

\* lines 187-201 for the candidates cands; objects.get raises when more than
\* one issue matches
LookUpIssues(cands, iss, icache) ==
    LET cached == cands \cap DOMAIN icache
        single == {c \in cands \ cached : Cardinality(IssuesNamed(iss, c)) = 1}
    IN  [links |-> [none |-> FALSE,
                    ids |-> {icache[c] : c \in cached}
                            \cup {OneId(IssuesNamed(iss, c)) : c \in single}],
         icache |-> [c \in DOMAIN icache \cup single |->
                        IF c \in DOMAIN icache THEN icache[c]
                        ELSE OneId(IssuesNamed(iss, c))],
         failed |-> \E c \in cands \ cached : Cardinality(IssuesNamed(iss, c)) > 1]

\* lines 163-201
GetIssueId(lnk, topic, description, iss, icache) ==
    IF ~lnk
    THEN [links |-> NoLinks, icache |-> icache, failed |-> FALSE]
    ELSE LookUpIssues(TopicCandidates(topic) \cup DescriptionCandidates(description),
                      iss, icache)

\* line 155: review.save() and what store_review returns
SaveReview(coll, doc, st, failed) ==
    LET saved == SaveDoc(coll, doc, st.nextId)
    IN  [coll |-> saved.coll, st |-> [st EXCEPT !.nextId = saved.nextId],
         doc |-> [doc EXCEPT !.id = saved.id], failed |-> failed]

\* lines 126-151 of the mutant: without review.revisions = [] of line 133
ParseReviewKeepingRevisions(coll, raw, found, li, a) ==
    IF Cardinality(found) > 1 \/ li.failed
    THEN [coll |-> coll, st |-> a.st, doc |-> <<>>, failed |-> TRUE]
    ELSE SaveReview(coll,
                    [FoundOrNew(found, [id |-> NoId, external_id |-> raw.id, title |-> None,
                                        updated_at |-> NoTime, author_id |-> NoId,
                                        linked_issue_ids |-> NoLinks, revisions |-> <<>>])
                        EXCEPT !.external_id = raw.id,
                               !.title = raw.subject,
                               !.linked_issue_ids = li.links,
                               !.author_id = a.id,
                               !.updated_at = raw.updated],
                    a.st, FALSE)

\* lines 126-151: the fields set from the raw review; li and a are the
\* resolved issue links and the resolved owner
ParseReview(coll, raw, found, li, a) ==
    IF Cardinality(found) > 1 \/ li.failed
    THEN [coll |-> coll, st |-> a.st, doc |-> <<>>, failed |-> TRUE]
    ELSE SaveReview(coll,
                    [FoundOrNew(found, [id |-> NoId, external_id |-> raw.id, title |-> None,
                                        updated_at |-> NoTime, author_id |-> NoId,
                                        linked_issue_ids |-> NoLinks, revisions |-> <<>>])
                        EXCEPT !.external_id = raw.id,
                               !.revisions = <<>>,
                               !.title = raw.subject,
                               !.linked_issue_ids = li.links,
                               !.author_id = a.id,
                               !.updated_at = raw.updated],
                    a.st, FALSE)

\* lines 118-155
StoreReview(coll, raw, st, li) ==
    ParseReview(coll, raw, {d \in coll : d.external_id = raw.id}, li,
                IF li.failed THEN [st |-> st, id |-> NoId]
                ELSE GetPeopleId(st, RawAccount(raw.owner)))

\* ---- get_reviews ----

PageN == 50            \* "n": 50
TicksPerDay == 2       \* the ticks of one calendar day

\* the batch sizes a remote may be configured to cut a listing at
GrServerLimits == {1, 2}

\* lines 91-96: updated_at of the stored review that order_by("updated_at") puts first
OldestUpdatedAt(coll) ==
    IF coll = {}
    THEN NoTime
    ELSE CHOOSE t \in {d.updated_at : d \in coll} : \A d \in coll : t <= d.updated_at

\* line 107: strftime('%Y-%m-%d'), the calendar day of a time
FormatDate(t) == t \div TicksPerDay

\* the remote's answer to q = "repo:... before:<day>": the reviews last
\* updated up to 00:00:00 of that day; all of them without "before:"
QueryReviews(listing, oldest) ==
    LET Before(r) == r.updated <= FormatDate(oldest) * TicksPerDay
    IN  IF oldest = NoTime THEN listing ELSE SelectSeq(listing, Before)

\* the remote's answer to "start" and "n": the reviews after the first start
\* ones, cut at the batch size, the last one flagged when more follow
RemoteBatch(result, start, n) ==
    LET hi == Min(start + n, Len(result))
    IN  [i \in 1..(hi - start) |->
            [result[start + i] EXCEPT !._more_changes = (i = hi - start /\ hi < Len(result))]]

\* the issues of the project's tracker, as another collector stored them
LinkedIssues ==
    {[id |-> 901, external_id |-> "1234", issue_system_id |-> 1],
     [id |-> 902, external_id |-> "name-of-task", issue_system_id |-> 1]}

\* the stores of issues a deployment may hold: the ids are object ids of the
\* Issue collection, an external id is unique within one issue system
IssueStores ==
    {{},
     {[id |-> 901, external_id |-> "1234", issue_system_id |-> 1]},
     LinkedIssues,
     {[id |-> 901, external_id |-> "1234", issue_system_id |-> 1],
      [id |-> 903, external_id |-> "1234", issue_system_id |-> 2]}}

\* the batch sizes the remote may cut the listing at
GrLimitsFor(listing) == IF Len(listing) > 1 THEN GrServerLimits ELSE {PageN}

\* line 292: revision.save() and what store_revision returns
SaveRevision(coll, doc, st, failed) ==
    LET saved == SaveDoc(coll, doc, st.nextId)
    IN  [coll |-> saved.coll, st |-> [st EXCEPT !.nextId = saved.nextId],
         id |-> saved.id, failed |-> failed]

\* lines 263-287: the fields set from the raw revision; a, reviewer, removed and
\* cc are the resolved owner and the three resolved reviewer lists
ParseRevision(coll, raw, code_review_id, found, a, reviewer, removed, cc) ==
    SaveRevision(coll,
                 [FoundOrNew(found, [id |-> NoId, external_id |-> raw.revision_external_id,
                                     code_review_id |-> NoId, revision_number |-> 0,
                                     author_id |-> NoId, reviewer_ids |-> <<>>,
                                     reviewer_removed_ids |-> <<>>])
                     EXCEPT !.code_review_id = code_review_id,
                            !.external_id = raw.revision_external_id,
                            !.revision_number = raw._number,
                            !.author_id = a.id,
                            !.reviewer_ids = reviewer.ids,
                            !.reviewer_removed_ids = cc.ids],
                 cc.st, Cardinality(found) > 1)

\* lines 285-287: the CC list is resolved last
ResolveCc(coll, raw, code_review_id, found, a, reviewer, removed) ==
    ParseRevision(coll, raw, code_review_id, found, a, reviewer, removed,
                  GetPeopleIds(removed.st, raw.CC))

\* lines 282-284
ResolveRemoved(coll, raw, code_review_id, found, a, reviewer) ==
    ResolveCc(coll, raw, code_review_id, found, a, reviewer,
              GetPeopleIds(reviewer.st, raw.REMOVED))

\* lines 279-281
ResolveReviewer(coll, raw, code_review_id, found, a) ==
    ResolveRemoved(coll, raw, code_review_id, found, a,
                   GetPeopleIds(a.st, raw.REVIEWER))

\* lines 255-292
StoreRevision(coll, raw, code_review_id, st) ==
    ResolveReviewer(coll, raw, code_review_id,
                    {d \in coll : d.external_id = raw.revision_external_id},
                    GetPeopleId(st, RawAccount(raw.owner)))

RECURSIVE ChangeLogLoop(_, _, _, _, _, _)
\* lines 221-235: a change log that is not stored yet; rid and a are its
\* resolved revision and author
NewChangeLog(raws, code_review_id, logs, revs, env, save_list, rid, a) ==
    IF rid.failed
    THEN [env |-> [env EXCEPT !.failed = TRUE], save_list |-> save_list]
    ELSE ChangeLogLoop(Tail(raws), code_review_id, logs, revs,
                       [env EXCEPT !.st = a.st, !.rcache = rid.rcache],
                       Append(save_list,
                              [id |-> NoId, external_id |-> Head(raws).id,
                               code_review_id |-> code_review_id,
                               revision_id |-> rid.id, author_id |-> a.id,
                               message |-> Head(raws).message]))

\* lines 216-235: env and the save_list after the loop over raw_change_logs
ChangeLogLoop(raws, code_review_id, logs, revs, env, save_list) ==
    IF raws = <<>> \/ env.failed
    THEN [env |-> env, save_list |-> save_list]
    ELSE LET found == {d \in logs : d.external_id = Head(raws).id}
         IN  IF Cardinality(found) > 1
             THEN [env |-> [env EXCEPT !.failed = TRUE], save_list |-> save_list]
             ELSE IF found # {}
             THEN ChangeLogLoop(Tail(raws), code_review_id, logs, revs, env, save_list)
             ELSE NewChangeLog(raws, code_review_id, logs, revs, env, save_list,
                               GetRevisionId(env.rcache, revs, code_review_id,
                                             Head(raws)._revision_number),
                               GetPeopleId(env.st, RawAccount(Head(raws).author)))

\* lines 237-240: the bulk insert of the save_list the loop left
InsertChangeLogs(logs, loop) ==
    IF loop.env.failed
    THEN [coll |-> logs, env |-> loop.env]
    ELSE [coll |-> InsertMany(logs, loop.save_list, loop.env.st.nextId).coll,
          env |-> [loop.env EXCEPT !.st.nextId = @ + Len(loop.save_list)]]

\* lines 210-240
StoreChangeLogs(raws, code_review_id, logs, revs, env) ==
    InsertChangeLogs(logs, ChangeLogLoop(raws, code_review_id, logs, revs, env, <<>>))

\* line 322: what a comment's in_reply_to_id is set to
InReplyToId(raw) == raw.in_reply_to

RECURSIVE CommentLoop(_, _, _, _, _, _)
\* lines 314-338: the fields of one comment; found holds the stored matches,
\* rid and a are the resolved revision and author
ParseComment(raws, code_review_id, coll, revs, env, insert_list, found, rid, a) ==
    LET raw == Head(raws)
        doc == [FoundOrNew(found,
                           [id |-> NoId, external_id |-> raw.id, code_review_id |-> NoId,
                            revision_id |-> NoId, author_id |-> NoId, message |-> <<>>,
                            in_reply_to_id |-> NoId, file_path |-> None])
                   EXCEPT !.code_review_id = code_review_id,
                          !.external_id = raw.id,
                          !.revision_id = rid.id,
                          !.author_id = a.id,
                          !.message = raw.message,
                          !.in_reply_to_id = InReplyToId(raw),
                          !.file_path = raw.file_path]
    IN  IF Cardinality(found) > 1 \/ rid.failed
        THEN [coll |-> coll, env |-> [env EXCEPT !.failed = TRUE],
              insert_list |-> insert_list]
        ELSE IF found # {}
        THEN CommentLoop(Tail(raws), code_review_id,
                         SaveDoc(coll, doc, a.st.nextId).coll, revs,
                         [env EXCEPT !.st = a.st, !.rcache = rid.rcache], insert_list)
        ELSE CommentLoop(Tail(raws), code_review_id, coll, revs,
                         [env EXCEPT !.st = a.st, !.rcache = rid.rcache],
                         Append(insert_list, doc))

\* lines 307-338: the collection, env and the insert_list after the loops
CommentLoop(raws, code_review_id, coll, revs, env, insert_list) ==
    IF raws = <<>> \/ env.failed
    THEN [coll |-> coll, env |-> env, insert_list |-> insert_list]
    ELSE ParseComment(raws, code_review_id, coll, revs, env, insert_list,
                      {d \in coll : d.external_id = Head(raws).id},
                      GetRevisionId(env.rcache, revs, code_review_id, Head(raws).patch_set),
                      GetPeopleId(env.st, RawAccount(Head(raws).author)))

\* lines 340-343: the bulk insert of the insert_list the loops left
InsertComments(loop) ==
    IF loop.env.failed
    THEN [coll |-> loop.coll, env |-> loop.env]
    ELSE [coll |-> InsertMany(loop.coll, loop.insert_list, loop.env.st.nextId).coll,
          env |-> [loop.env EXCEPT !.st.nextId = @ + Len(loop.insert_list)]]

\* lines 301-343
StoreComments(raws, code_review_id, coll, revs, env) ==
    InsertComments(CommentLoop(raws, code_review_id, coll, revs, env, <<>>))

\* the frame of the People variables a Gerrit step leaves alone
GrPeopleFrame ==
    UNCHANGED <<backend, ghPeopleCache, ghUsers, grAccounts, httpCount, storeOps, calls,
                lastKey, lastId, lastRepeat, firstId, resolved, created>>

\* ---- _get_issue_id on its own ----

\* the topics and commit messages _get_issue_id is called with
LkTopics == {<<>>, <<"bug", "1234">>, <<"999">>, <<"bp", "name-of-task">>}

LkDescriptions ==
    {<<>>, <<Text, BugRef("1234"), Text, BpRef("name-of-task")>>, <<Text, BugRef("999")>>}

\* line 141: store_review calls _get_issue_id(topic, description)
LkGetIssueId ==
    /\ lkCalls < MaxCalls
    /\ lkCalls' = lkCalls + 1
    /\ lkTopic' \in LkTopics
    /\ lkDescription' \in LkDescriptions
    /\ LET r == GetIssueId(link, lkTopic', lkDescription', issues, issue_id_cache)
       IN  /\ lkResult' = r.links
           /\ lkFailed' = r.failed
           /\ issue_id_cache' = r.icache
    /\ UNCHANGED <<grRemote, grPc, rIdx, revIdx, review, codeReviews, codeReviewRevisions,
                   codeReviewChangeLogs, codeReviewComments, revision_id_cache, link, issues,
                   grListing, grLimit, oldest_review, yielded_reviews, data, grNewest,
                   grDoneAt, grPartial, grPrevListing, grPrevPc, grReqs, grYielded>>

LinkNext == LkGetIssueId /\ UNCHANGED <<pgVars, ppVars, ghVars, rqVars>>

InitLink ==
    /\ PagesIdle /\ PeopleIdle /\ GithubIdle /\ GerritUnused /\ FetchIdle /\ LinkIdle
    /\ link \in BOOLEAN
    /\ issues \in IssueStores

SpecLink == InitLink /\ [][LinkNext]_vars

\* what a step of run() leaves alone: the configuration, the issues, the
\* remote and what get_reviews computed before its loop
GrRunFrame ==
    UNCHANGED <<link, issues, grListing, grLimit, grRemote, oldest_review, grNewest,
                grPrevListing, grPrevPc, runNo>>

\* the latest updated_at among the threads that reached Done (NoTime for none)
NewestDone(done) ==
    IF done = {}
    THEN NoTime
    ELSE CHOOSE t \in {d[2] : d \in done} : \A d \in done : d[2] <= t

\* Gerrit.__init__, line 60 and lines 84-96: a connector instance, in a new
\* process or in the process of the previous run (class attributes, lines
\* 36-43), calls get_reviews, which reads oldest_review; grRemote is what the
\* remote holds for the query of lines 100-110
GrStartRun ==
    /\ grPc \in {"idle", "done", "failed", "interrupted"}
    /\ runNo < MaxRuns
    /\ runNo' = runNo + 1
    /\ grListing' \in GrListings
    /\ grLimit' \in GrLimitsFor(grListing')
    /\ oldest_review' = OldestUpdatedAt(codeReviews)
    /\ grRemote' = QueryReviews(grListing', oldest_review')
    /\ \E newProcess \in (IF grPc = "interrupted" THEN {TRUE} ELSE BOOLEAN) :
          /\ people_id_cache' = IF newProcess THEN EmptyMap ELSE people_id_cache
          /\ revision_id_cache' = IF newProcess THEN EmptyMap ELSE revision_id_cache
          /\ issue_id_cache' = IF newProcess THEN EmptyMap ELSE issue_id_cache
    /\ grNewest' = NewestDone(grDoneAt)
    /\ grPrevListing' = grListing
    /\ grPrevPc' = grPc
    /\ grPc' = "fetch"
    /\ yielded_reviews' = 0
    /\ data' = <<>>
    /\ rIdx' = 1
    /\ grReqs' = <<>>
    /\ grYielded' = <<>>
    /\ UNCHANGED <<revIdx, review, codeReviews, codeReviewRevisions, codeReviewChangeLogs,
                   codeReviewComments, people, nextId, link, issues, grDoneAt, grPartial>>
    /\ GrPeopleFrame

\* lines 98-112 and, for an empty batch, lines 113-116: the for loop yields
\* nothing and data[-1] raises IndexError
GrFetchReviews ==
    /\ grPc = "fetch"
    /\ data' = RemoteBatch(grRemote, yielded_reviews, Min(PageN, grLimit))
    /\ grReqs' = Append(grReqs, [start |-> yielded_reviews,
                                 batch |-> [i \in DOMAIN data' |-> data'[i].id],
                                 more |-> data' # <<>> /\ data'[Len(data')]._more_changes])
    /\ UNCHANGED grYielded
    /\ grPc' = IF data' = <<>> THEN "failed" ELSE "review"
    /\ UNCHANGED <<rIdx, revIdx, review, codeReviews, codeReviewRevisions,
                   codeReviewChangeLogs, codeReviewComments, revision_id_cache,
                   issue_id_cache, yielded_reviews, grDoneAt, grPartial>>
    /\ GrRunFrame
    /\ UNCHANGED <<people, nextId, people_id_cache>>
    /\ GrPeopleFrame

\* lines 60-66: store_review for the next raw review of the batch
GrStoreReview ==
    /\ grPc = "review"
    /\ rIdx <= yielded_reviews + Len(data)
    /\ LET r == StoreReview(codeReviews, data[rIdx - yielded_reviews],
                            PeopleState(people_id_cache),
                            GetIssueId(link, data[rIdx - yielded_reviews].topic,
                                       GetDescriptionFromRevisions(data[rIdx - yielded_reviews]),
                                       issues, issue_id_cache))
       IN  /\ codeReviews' = r.coll
           /\ people' = r.st.people
           /\ nextId' = r.st.nextId
           /\ people_id_cache' = r.st.cache
           /\ review' = r.doc
           /\ grPc' = IF r.failed THEN "failed" ELSE "revisions"
           /\ grPartial' = IF r.failed THEN grPartial
                           ELSE grPartial \cup {data[rIdx - yielded_reviews].id}
    /\ issue_id_cache' = GetIssueId(link, data[rIdx - yielded_reviews].topic,
                                    GetDescriptionFromRevisions(data[rIdx - yielded_reviews]),
                                    issues, issue_id_cache).icache
    /\ revIdx' = 1
    /\ grYielded' = Append(grYielded, data[rIdx - yielded_reviews].id)
    /\ UNCHANGED grReqs
    /\ UNCHANGED <<rIdx, codeReviewRevisions, codeReviewChangeLogs, codeReviewComments,
                   revision_id_cache, yielded_reviews, data, grDoneAt>>
    /\ GrRunFrame
    /\ GrPeopleFrame

\* lines 69-72: get_revision, store_revision and the append for one revision
GrStoreRevision ==
    /\ grPc = "revisions"
    /\ revIdx <= Len(grRemote[rIdx].revisions)
    /\ LET r == StoreRevision(codeReviewRevisions, grRemote[rIdx].revisions[revIdx],
                              review.id, PeopleState(people_id_cache))
       IN  /\ codeReviewRevisions' = r.coll
           /\ people' = r.st.people
           /\ nextId' = r.st.nextId
           /\ people_id_cache' = r.st.cache
           /\ review' = [review EXCEPT !.revisions = Append(@, r.id)]
           /\ grPc' = IF r.failed THEN "failed" ELSE "revisions"
    /\ revIdx' = revIdx + 1
    /\ UNCHANGED <<rIdx, codeReviews, codeReviewChangeLogs, codeReviewComments,
                   revision_id_cache, issue_id_cache, yielded_reviews, data, grDoneAt,
                   grPartial>>
    /\ GrRunFrame
    /\ UNCHANGED <<grReqs, grYielded>>
    /\ GrPeopleFrame

\* lines 75-76: get_change_logs and store_change_logs
GrStoreChangeLogs ==
    /\ grPc = "revisions"
    /\ revIdx > Len(grRemote[rIdx].revisions)
    /\ LET r == StoreChangeLogs(grRemote[rIdx].messages, review.id, codeReviewChangeLogs,
                                codeReviewRevisions,
                                Env(PeopleState(people_id_cache), revision_id_cache))
       IN  /\ codeReviewChangeLogs' = r.coll
           /\ people' = r.env.st.people
           /\ nextId' = r.env.st.nextId
           /\ people_id_cache' = r.env.st.cache
           /\ revision_id_cache' = r.env.rcache
           /\ grPc' = IF r.env.failed THEN "failed" ELSE "comments"
    /\ UNCHANGED <<rIdx, revIdx, review, codeReviews, codeReviewRevisions,
                   codeReviewComments, issue_id_cache, yielded_reviews, data, grDoneAt,
                   grPartial>>
    /\ GrRunFrame
    /\ UNCHANGED <<grReqs, grYielded>>
    /\ GrPeopleFrame

\* lines 79-82 of the mutant: after store_comments the loop goes on to the
\* next raw review without the final review.save()
GrStoreCommentsSkippingSave ==
    /\ grPc = "comments"
    /\ LET r == StoreComments(grRemote[rIdx].comments, review.id, codeReviewComments,
                              codeReviewRevisions,
                              Env(PeopleState(people_id_cache), revision_id_cache))
       IN  /\ codeReviewComments' = r.coll
           /\ people' = r.env.st.people
           /\ nextId' = r.env.st.nextId
           /\ people_id_cache' = r.env.st.cache
           /\ revision_id_cache' = r.env.rcache
           /\ grPc' = IF r.env.failed THEN "failed" ELSE "review"
           /\ rIdx' = IF r.env.failed THEN rIdx ELSE rIdx + 1
    /\ UNCHANGED <<revIdx, review, codeReviews, codeReviewRevisions,
                   codeReviewChangeLogs, issue_id_cache, yielded_reviews, data, grDoneAt,
                   grPartial>>
    /\ GrRunFrame
    /\ UNCHANGED <<grReqs, grYielded>>
    /\ GrPeopleFrame

\* lines 79-80: get_comments and store_comments
GrStoreComments ==
    /\ grPc = "comments"
    /\ LET r == StoreComments(grRemote[rIdx].comments, review.id, codeReviewComments,
                              codeReviewRevisions,
                              Env(PeopleState(people_id_cache), revision_id_cache))
       IN  /\ codeReviewComments' = r.coll
           /\ people' = r.env.st.people
           /\ nextId' = r.env.st.nextId
           /\ people_id_cache' = r.env.st.cache
           /\ revision_id_cache' = r.env.rcache
           /\ grPc' = IF r.env.failed THEN "failed" ELSE "save"
    /\ UNCHANGED <<rIdx, revIdx, review, codeReviews, codeReviewRevisions,
                   codeReviewChangeLogs, issue_id_cache, yielded_reviews, data, grDoneAt,
                   grPartial>>
    /\ GrRunFrame
    /\ UNCHANGED <<grReqs, grYielded>>
    /\ GrPeopleFrame

\* line 82: review.save(), the thread is Done; then the next raw review
GrSaveReview ==
    /\ grPc = "save"
    /\ codeReviews' = SaveDoc(codeReviews, review, nextId).coll
    /\ grDoneAt' = grDoneAt \cup {<<review.external_id, review.updated_at>>}
    /\ grPartial' = grPartial \ {review.external_id}
    /\ grPc' = "review"
    /\ rIdx' = rIdx + 1
    /\ UNCHANGED <<revIdx, review, codeReviewRevisions, codeReviewChangeLogs,
                   codeReviewComments, revision_id_cache, issue_id_cache, yielded_reviews,
                   data>>
    /\ GrRunFrame
    /\ UNCHANGED <<grReqs, grYielded>>
    /\ UNCHANGED <<people, nextId, people_id_cache>>
    /\ GrPeopleFrame

\* lines 115-116 of the mutant: yielded_reviews is not advanced
GrNextPageSameOffset ==
    /\ grPc = "review"
    /\ rIdx > yielded_reviews + Len(data)
    /\ data[Len(data)]._more_changes
    /\ grPc' = "fetch"
    /\ UNCHANGED <<rIdx, revIdx, review, codeReviews, codeReviewRevisions,
                   codeReviewChangeLogs, codeReviewComments, revision_id_cache,
                   issue_id_cache, yielded_reviews, data, grDoneAt, grPartial>>
    /\ GrRunFrame
    /\ UNCHANGED <<grReqs, grYielded>>
    /\ UNCHANGED <<people, nextId, people_id_cache>>
    /\ GrPeopleFrame

\* lines 115-116 with _more_changes set on the last review: the next batch
GrNextPage ==
    /\ grPc = "review"
    /\ rIdx > yielded_reviews + Len(data)
    /\ data[Len(data)]._more_changes
    /\ yielded_reviews' = yielded_reviews + Len(data)
    /\ grPc' = "fetch"
    /\ UNCHANGED <<rIdx, revIdx, review, codeReviews, codeReviewRevisions,
                   codeReviewChangeLogs, codeReviewComments, revision_id_cache,
                   issue_id_cache, data, grDoneAt, grPartial>>
    /\ GrRunFrame
    /\ UNCHANGED <<grReqs, grYielded>>
    /\ UNCHANGED <<people, nextId, people_id_cache>>
    /\ GrPeopleFrame

\* lines 115-116 without _more_changes: the generator is exhausted, run() returns
GrFinishRun ==
    /\ grPc = "review"
    /\ rIdx > yielded_reviews + Len(data)
    /\ ~data[Len(data)]._more_changes
    /\ yielded_reviews' = yielded_reviews + Len(data)
    /\ grPc' = "done"
    /\ UNCHANGED <<rIdx, revIdx, review, codeReviews, codeReviewRevisions,
                   codeReviewChangeLogs, codeReviewComments, revision_id_cache,
                   issue_id_cache, data, grDoneAt, grPartial>>
    /\ GrRunFrame
    /\ UNCHANGED <<grReqs, grYielded>>
    /\ UNCHANGED <<people, nextId, people_id_cache>>
    /\ GrPeopleFrame

\* the process is stopped from outside while run() is under way
GrInterrupt ==
    /\ grPc \in {"revisions", "comments", "save"}
    /\ grPc' = "interrupted"
    /\ UNCHANGED <<rIdx, revIdx, review, codeReviews, codeReviewRevisions,
                   codeReviewChangeLogs, codeReviewComments, revision_id_cache,
                   issue_id_cache, yielded_reviews, data, grDoneAt, grPartial>>
    /\ GrRunFrame
    /\ UNCHANGED <<grReqs, grYielded>>
    /\ UNCHANGED <<people, nextId, people_id_cache>>
    /\ GrPeopleFrame

GerritInit ==
    /\ backend = "gerrit"
    /\ people = {}
    /\ nextId = 1
    /\ ghPeopleCache = EmptyMap
    /\ people_id_cache = EmptyMap
    /\ ghUsers = EmptyMap
    /\ grAccounts = [a \in GrAccountIds |->
                        [_account_id |-> a, name |-> <<"name", a>>, email |-> <<"mail", a>>,
                         username |-> <<"user", a>>]]
    /\ httpCount = 0
    /\ storeOps = 0
    /\ calls = 0
    /\ lastKey = 0
    /\ lastId = NoId
    /\ lastRepeat = FALSE
    /\ firstId = EmptyMap
    /\ resolved = {}
    /\ created = {}
    /\ runNo = 0
    /\ link = TRUE
    /\ issues = LinkedIssues

Next ==
    \/ GrStartRun /\ UNCHANGED <<pgVars, ghVars, rqVars, lkVars>>
    \/ GrFetchReviews /\ UNCHANGED <<pgVars, ghVars, rqVars, lkVars>>
    \/ GrStoreReview /\ UNCHANGED <<pgVars, ghVars, rqVars, lkVars>>
    \/ GrStoreRevision /\ UNCHANGED <<pgVars, ghVars, rqVars, lkVars>>
    \/ GrStoreChangeLogs /\ UNCHANGED <<pgVars, ghVars, rqVars, lkVars>>
    \/ GrStoreComments /\ UNCHANGED <<pgVars, ghVars, rqVars, lkVars>>
    \/ GrSaveReview /\ UNCHANGED <<pgVars, ghVars, rqVars, lkVars>>
    \/ GrNextPage /\ UNCHANGED <<pgVars, ghVars, rqVars, lkVars>>
    \/ GrFinishRun /\ UNCHANGED <<pgVars, ghVars, rqVars, lkVars>>
    \/ GrInterrupt /\ UNCHANGED <<pgVars, ghVars, rqVars, lkVars>>

Init == GerritInit /\ PagesIdle /\ GithubIdle /\ GerritUnused /\ FetchIdle /\ LinkIdle

Spec == Init /\ [][Next]_vars

----------------------------------------------------------------------------
\* the review comment documents stored under the pull request document prId
GhThread(prId) ==
    {c \in prReviewComments :
        \E r \in prReviews : r.id = c.pull_request_review_id /\ r.pull_request_id = prId}

\* the raw review comments of a pull request with their place in the order
\* in which parse_pr_list walks them
GhRawComments(pr) ==
    UNION {{[rv |-> j, cm |-> k, raw |-> pr.reviews[j].comments[k]] :
                k \in 1..Len(pr.reviews[j].comments)} : j \in 1..Len(pr.reviews)}

GhBefore(x, y) == x.rv < y.rv \/ (x.rv = y.rv /\ x.cm < y.cm)

\* C1: a second run of the pipeline against an unchanged remote payload
\* leaves every collection exactly as the first run left it.
C1_SecondRunChangesNothing ==
    (ghPc = "done" /\ runNo >= 2 /\ ghRemote = ghPrevRemote)
        => <<people, pullRequests, prReviews, prReviewComments>> = ghPrevStore

\* C3: when a reply B is parsed before its parent A, after the run B's
\* in_reply_to is the id of the one record that carries A's content and the
\* thread holds exactly one record with A's external id, under whichever
\* reviews A and B were fetched.
C3_ForwardReferenceResolved ==
    ghPc = "done" =>
        \A i \in 1..Len(ghRemote) : \A d \in pullRequests :
            d.external_id = ghRemote[i].number =>
                \A b \in GhRawComments(ghRemote[i]) : \A a \in GhRawComments(ghRemote[i]) :
                    (GhBefore(b, a) /\ b.raw.in_reply_to_id = a.raw.id) =>
                        LET recsA == {c \in GhThread(d.id) : c.external_id = a.raw.id}
                            recsB == {c \in GhThread(d.id) : c.external_id = b.raw.id}
                        IN  /\ Cardinality(recsA) = 1
                            /\ \A ra \in recsA : ra.comment = a.raw.body
                            /\ \A rb \in recsB : \A ra \in recsA : rb.in_reply_to_id = ra.id

\* C7: after a pull request stored with requested reviewers {X, Y} is synced
\* again with requested reviewers {X}, its stored requested-reviewer field
\* holds exactly {X}.
C7_ReviewersReplaced ==
    (/\ ghPc = "done"
     /\ runNo >= 2
     /\ Len(ghRemote) = 1
     /\ Len(ghPrevRemote) = 1
     /\ ghPrevRemote[1].requested_reviewers = <<GhX, GhY>>
     /\ ghRemote[1].requested_reviewers = <<GhX>>)
        => \A d \in pullRequests :
              Range(d.requested_reviewer_ids) = {ghPeopleCache[GhX]}

----------------------------------------------------------------------------
\* a collection in which no two documents share an external id
UniqueExternalIds(coll) ==
    \A x \in coll : \A y \in coll : x.external_id = y.external_id => x.id = y.id

\* C2: after any sequence of sync runs, also over a payload that carries the
\* same external id twice inside one change-log or comment batch, no
\* collection holds two records with the same external id.
C2_NoDuplicateExternalIds ==
    /\ UniqueExternalIds(codeReviews)
    /\ UniqueExternalIds(codeReviewRevisions)
    /\ UniqueExternalIds(codeReviewChangeLogs)
    /\ UniqueExternalIds(codeReviewComments)
    /\ UniqueExternalIds(pullRequests)

\* the raw comments the listed reviews carry
GrRawComments == UNION {Range(grRemote[i].comments) : i \in 1..Len(grRemote)}

\* C4: in every state reached during a sync, a stored comment whose raw
\* record carries a reply marker has a non-null in_reply_to_id that is the
\* local id of a comment document stored under the same review.
C4_ReplyTargetIsLocalComment ==
    \A raw \in GrRawComments : \A c \in codeReviewComments :
        (raw.in_reply_to # NoId /\ c.external_id = raw.id) =>
            /\ c.in_reply_to_id # NoId
            /\ \E t \in codeReviewComments :
                  /\ t.id = c.in_reply_to_id
                  /\ t.code_review_id = c.code_review_id

----------------------------------------------------------------------------
\* C5: _fetch_all_pages returns the concatenation of all pages the remote
\* served, in order (all 237 records for pages of 100, 100 and 37).
C5_ReturnsAllPages ==
    pgPc = "done" => pgResult = AllRecords(pgTotal)

\* C6: no request is sent after a page that came back with fewer than 100
\* records (three requests for pages of 100, 100 and 37).
C6_NoRequestAfterShortPage ==
    \A i \in 1..Len(pgReqs) : pgReqs[i] < PageSize => i = Len(pgReqs)

----------------------------------------------------------------------------
\* the first MaxTries attempts of the fetcher call all came back non-success
RqExhausted ==
    /\ Len(rqLog) >= MaxTries
    /\ \A i \in 1..MaxTries : rqLog[i].status # StatusOk

\* C11: for both fetchers, after three consecutive non-success attempts of
\* one request no fourth attempt is made and the call ends by raising an
\* error, never by returning a value to the caller.
C11_ExhaustedRetriesRaise ==
    RqExhausted => /\ Len(rqLog) = MaxTries
                   /\ rqPc \in {"loop", "raised"}

----------------------------------------------------------------------------
\* the candidates of the last call: the last part of the topic after '/' and
\* what the description patterns captured
LkCandidates ==
    (IF lkTopic = <<>> THEN {} ELSE {lkTopic[Len(lkTopic)]})
    \cup {lkDescription[i].ref : i \in {j \in DOMAIN lkDescription :
                                           lkDescription[j].kind # "text"}}

\* C17: with issue linking enabled, the linked issue ids of a thread are
\* exactly the ids of the stored issues whose external id is among the
\* candidates taken from the topic and the description; no candidate raises
\* an error, and no matching candidate gives the empty list.
C17_LinkedIssuesAreTheMatches ==
    (link /\ lkCalls > 0) =>
        /\ ~lkFailed
        /\ ~lkResult.none
        /\ lkResult.ids = {i.id : i \in {x \in issues : x.external_id \in LkCandidates}}

----------------------------------------------------------------------------
\* C13: a failure while one thread is reconciled does not end the run: the
\* orchestrator goes on to the remaining threads of the listing, so a run
\* never stands ended by a failure with threads of its listing still ahead.
C13_FailedThreadDoesNotEndRun ==
    grPc = "failed" => rIdx >= Len(grRemote)

\* C14: the timestamp that bounds the listing query of a run is the
\* updated_at of a thread that reached Done, never that of a thread stored
\* at the ReviewStored stage only.
C14_WatermarkFromDoneThreads ==
    oldest_review # NoTime => \E d \in grDoneAt : d[2] = oldest_review

\* C15: on a run that follows earlier runs, every thread the remote lists
\* with an updated_at later than the most recent updated_at among the
\* previously reconciled threads is part of what the run fetches.
C15_ChangedSinceIsFetched ==
    (grPc # "idle" /\ grNewest # NoTime) =>
        \A i \in 1..Len(grListing) :
            grListing[i].updated > grNewest =>
                \E k \in 1..Len(grRemote) : grRemote[k].id = grListing[i].id

\* C16: when a run was interrupted with a thread only partly stored, a
\* following uninterrupted run against the same remote data ends with that
\* thread Done.
C16_InterruptedThreadIsResumed ==
    (grPc = "done" /\ grPrevPc = "interrupted" /\ grListing = grPrevListing)
        => grPartial = {}

\* C18: an empty batch from the remote, as the only or as the final page,
\* ends the sequence of reviews normally: no run fails on an empty batch.
C18_EmptyBatchIsNoError ==
    ~(grPc = "failed" /\ data = <<>>)

\* the last raw record of the sequence raws that carries the external id x
LatestRaw(raws, x) ==
    raws[CHOOSE i \in 1..Len(raws) :
            /\ raws[i].id = x
            /\ \A j \in 1..Len(raws) : raws[j].id = x => j <= i]

\* C19: for threads, revisions, change-log entries and comments, once the
\* stage that reconciles the records of a thread is through, every stored
\* record with the natural key of a raw record of the latest payload
\* carries that payload's field values.
C19_ResyncOverwritesFields ==
    /\ grPc \in {"revisions", "comments", "save"} =>
          \A d \in codeReviews :
              d.external_id = grRemote[rIdx].id =>
                  d.title = grRemote[rIdx].subject /\ d.updated_at = grRemote[rIdx].updated
    /\ grPc \in {"comments", "save"} =>
          /\ \A raw \in Range(grRemote[rIdx].revisions) : \A d \in codeReviewRevisions :
                d.external_id = raw.revision_external_id =>
                    d.revision_number = raw._number
          /\ \A raw \in Range(grRemote[rIdx].messages) : \A d \in codeReviewChangeLogs :
                d.external_id = raw.id =>
                    d.message = LatestRaw(grRemote[rIdx].messages, raw.id).message
    /\ grPc = "save" =>
          \A raw \in Range(grRemote[rIdx].comments) : \A d \in codeReviewComments :
              d.external_id = raw.id =>
                  d.message = LatestRaw(grRemote[rIdx].comments, raw.id).message

----------------------------------------------------------------------------
\* C8: two raw actor records with the same email and the same display name
\* but different remote ids resolve to the same person record, in whichever
\* order and run they are resolved.
C8_IdentityMerge ==
    \A r1 \in resolved : \A r2 \in resolved :
        (r1.email = r2.email /\ r1.name = r2.name /\ r1.key # r2.key) => r1.id = r2.id

\* C9: the store never holds two person records with the same (username,
\* email, name), and a person record is created only when the lookup by
\* (email, name) and the lookup by (username, name) both find nothing.
C9_NoDuplicatePeople ==
    /\ \A p \in people : \A q \in people :
          (p.username = q.username /\ p.email = q.email /\ p.name = q.name) => p.id = q.id
    /\ \A c \in created : ~c.byEmail /\ ~c.byUser

\* C10: within one run, a resolve call for a remote actor identifier that
\* was already resolved in that run returns the same person id as the first
\* call and performs no HTTP request and no store lookup or write.
C10_CachedResolveIsFree ==
    [][(calls' = calls + 1 /\ lastRepeat')
          => /\ lastId' = firstId[lastKey']
             /\ httpCount' = 0
             /\ storeOps' = 0
             /\ people' = people]_vars

\* a repeated resolve call has happened, for either connector
C10_Witness ==
    /\ lastRepeat
    /\ calls >= 2
    /\ lastId # NoId

\* C20: a new connector instance starts its run with an empty identity
\* cache, and the first resolve call of a run for an actor identifier goes
\* through the store instead of using an entry an earlier run created.
C20_CacheScopedToRun ==
    [][/\ (runNo' = runNo + 1) => (people_id_cache' = EmptyMap /\ ghPeopleCache' = EmptyMap)
       /\ (calls' = calls + 1 /\ ~lastRepeat') => storeOps' > 0]_vars

----------------------------------------------------------------------------
\* the person ids the accounts of a raw reviewer list resolved to
GrResolvedIds(accounts) == {people_id_cache[a] : a \in Range(accounts)}

\* the revisions of the current thread that store_revision has stored
GrStoredRevisions ==
    IF grPc \in {"revisions", "comments", "save"} /\ rIdx <= Len(grRemote)
    THEN {grRemote[rIdx].revisions[k] :
             k \in {j \in 1..Len(grRemote[rIdx].revisions) : j < revIdx}}
    ELSE {}

\* C23: after store_revision the stored reviewer sets of a revision are the
\* persons resolved from the matching list of the raw payload: the requested
\* reviewers from REVIEWER, the removed reviewers from REMOVED (the cc set,
\* resolved from CC, has no other field to be stored in).
C23_ReviewerSetsFromTheirLists ==
    \A raw \in GrStoredRevisions : \A d \in codeReviewRevisions :
        d.external_id = raw.revision_external_id =>
            /\ Range(d.reviewer_ids) = GrResolvedIds(raw.REVIEWER)
            /\ Range(d.reviewer_removed_ids) = GrResolvedIds(raw.REMOVED)

\* C24: every payload _send_request returns to its caller is the body of a
\* response with status 200, also when it is the response to the request
\* re-issued after a rate-limit wait.
C24_ReturnedPayloadFromStatus200 ==
    (rqPc = "returned" /\ rqBackend = "github") =>
        \A i \in 1..Len(rqLog) : rqLog[i].body = rqResult => rqLog[i].status = StatusOk

\* C25: _get_person never gives two remote users with different logins the
\* same person record, and the record a user resolved to keeps that user's
\* login as its username whoever is resolved afterwards.
C25_OnePersonPerLogin ==
    backend = "github" =>
        /\ \A r1 \in resolved : \A r2 \in resolved :
              GhLogin(r1.key) # GhLogin(r2.key) => r1.id # r2.id
        /\ \A r \in resolved : \A p \in people :
              p.id = r.id => p.username = GhLogin(r.key)

----------------------------------------------------------------------------
\* every revision of the current thread's payload has been stored and appended
GrAllRevisionsStored ==
    /\ rIdx <= Len(grRemote)
    /\ review.external_id = grRemote[rIdx].id
    /\ Len(review.revisions) = Len(grRemote[rIdx].revisions)

\* C21: the stages of a thread run in the order store review, store every
\* revision, store change logs, store comments, final save; each stage
\* starts from the one before it, the collections are written in their own
\* stage only, and the next thread begins only after the final save.
C21_StagesInOrder ==
    [][/\ (grPc' = "revisions") =>
             /\ grPc \in {"review", "revisions"}
             /\ review'.external_id = grRemote[rIdx].id
             /\ \E d \in codeReviews' : d.id = review'.id
       /\ (grPc' = "comments") => (grPc = "revisions" /\ GrAllRevisionsStored)
       /\ (grPc' = "save") => grPc = "comments"
       /\ (codeReviewRevisions' # codeReviewRevisions) => grPc = "revisions"
       /\ (codeReviewChangeLogs' # codeReviewChangeLogs) =>
             (grPc = "revisions" /\ GrAllRevisionsStored)
       /\ (codeReviewComments' # codeReviewComments) => grPc = "comments"
       /\ (rIdx' # rIdx /\ grPc' # "fetch") =>
             /\ grPc = "save"
             /\ rIdx' = rIdx + 1
             /\ review \in codeReviews'
       /\ (grPc = "review" /\ codeReviews' # codeReviews) =>
             (grPc' \in {"revisions", "failed"} /\ rIdx' = rIdx)]_vars

\* the second thread of a run is at its final save, after the first was Done
C21_Witness ==
    /\ grPc = "save"
    /\ rIdx = 2
    /\ GrAllRevisionsStored
    /\ grRemote[1].id # grRemote[2].id

----------------------------------------------------------------------------
RECURSIVE GrFetchedIds(_)
\* the external ids of the first k batches of this run, in the order received
GrFetchedIds(k) == IF k = 0 THEN <<>> ELSE GrFetchedIds(k - 1) \o grReqs[k].batch

\* C22: in get_reviews the start offset of every request is the number of
\* records yielded before it, the records yielded are the records of the
\* fetched batches, each once and in the order received (all of them when
\* the generator is exhausted), and a batch whose last element has no true
\* _more_changes flag is the last one requested.
C22_OffsetIsYieldedCount ==
    /\ \A k \in 1..Len(grReqs) :
          /\ grReqs[k].start = Len(GrFetchedIds(k - 1))
          /\ k < Len(grReqs) => grReqs[k].more
    /\ Len(grYielded) <= Len(GrFetchedIds(Len(grReqs)))
    /\ grYielded = SubSeq(GrFetchedIds(Len(grReqs)), 1, Len(grYielded))
    /\ Len(grReqs) >= 1 => Len(grYielded) >= grReqs[Len(grReqs)].start
    /\ grPc = "done" =>
          /\ grYielded = GrFetchedIds(Len(grReqs))
          /\ ~grReqs[Len(grReqs)].more

\* a run that needed two batches is over
C22_Witness ==
    /\ grPc = "done"
    /\ Len(grReqs) >= 2
    /\ grReqs[2].start >= 1
    /\ Len(grYielded) >= 2

----------------------------------------------------------------------------
\* the positions of the current run's listing whose thread reached Done in
\* this run and was not taken up again since
GrDoneNow ==
    {j \in 1..Len(grRemote) :
        /\ j < rIdx
        /\ grRemote[j].id \notin grPartial
        /\ \A i \in 1..Len(grRemote) : (j < i /\ i < rIdx) => grRemote[i].id # grRemote[j].id}

\* C26: the revision list stored for a thread that reached Done holds one
\* id for each revision of the remote payload, in payload order, and no id
\* twice, however often the thread was reconciled before.
C26_RevisionListMatchesPayload ==
    \A j \in GrDoneNow : \A d \in codeReviews :
        d.external_id = grRemote[j].id =>
            /\ Len(d.revisions) = Len(grRemote[j].revisions)
            /\ \A k \in 1..Len(d.revisions) :
                  /\ \E rev \in codeReviewRevisions :
                        /\ rev.id = d.revisions[k]
                        /\ rev.external_id = grRemote[j].revisions[k].revision_external_id
                  /\ \A m \in 1..Len(d.revisions) : d.revisions[m] = d.revisions[k] => m = k

\* a thread with two revisions reached Done for the second time
C26_Witness ==
    /\ runNo = 2
    /\ grPrevPc = "done"
    /\ \E j \in GrDoneNow :
          /\ Len(grRemote[j].revisions) = 2
          /\ grRemote[j].id \in {grPrevListing[i].id : i \in 1..Len(grPrevListing)}
          /\ \E d \in codeReviews : d.external_id = grRemote[j].id /\ Len(d.revisions) = 2

----------------------------------------------------------------------------
\* the stored revision a record of review rid refers to exists, belongs to
\* review rid and has the revision number the raw record names
GrRefersTo(revision_id, rid, number) ==
    \E rev \in codeReviewRevisions :
        /\ rev.id = revision_id
        /\ rev.code_review_id = rid
        /\ rev.revision_number = number

----------------------------------------------------------------------------
\* C28: both pagination loops come to their end for every finite remote
\* collection: _fetch_all_pages sends no request after an empty page and at
\* most one per page the remote holds plus one, get_reviews sends no more
\* requests than the remote holds reviews plus one, and neither ends by an
\* error of the loop itself, also when the collection is empty.
C28_PaginationStops ==
    /\ Len(pgReqs) <= (pgTotal \div PageSize) + 2
    /\ \A i \in 1..Len(pgReqs) : pgReqs[i] = 0 => i = Len(pgReqs)
    /\ Len(grReqs) <= Len(grRemote) + 1
    /\ \A k \in 1..Len(grReqs) : grReqs[k].batch = <<>> => grPc # "failed"

=============================================================================
